---- MODULE Spec2Model ----
(***************************************************************************)
(* Model of the imprint crate (src/lib.rs): Metadata::from_path, the       *)
(* TryInto<Imprint> conversion with its head/tail sampling, the equality   *)
(* and hashing of Metadata and Imprint, and the length arithmetic of       *)
(* get_head_length / get_tail_length.                                      *)
(*                                                                         *)
(* Scaling.  The crate samples 0x80000 bytes and computes on 64-bit        *)
(* integers.  The model keeps the code's arithmetic but scales it down:    *)
(* SAMPLE_SIZE is 2 bytes, u64/i64 are Width-bit integers, bytes are taken *)
(* from a two-letter alphabet and SHA-256 is replaced by a small           *)
(* deterministic fixed-width fold (collisions of that fold are allowed,    *)
(* no claim below relies on their absence).                                *)
(***************************************************************************)
EXTENDS Integers, Sequences, FiniteSets, TLC

VARIABLES files, cons, writes, resized, lens

vars == <<files, cons, writes, resized, lens>>

----------------------------------------------------------------------------
(* Bounds *)

\* width in bits of the scaled u64 / i64
Width == 6
\* longest unsampled middle region of a file
MaxMiddle == 1
\* number of concurrent resizes of a file during one construction
MaxWrites == 1

----------------------------------------------------------------------------
(* Constants and basic types *)

SAMPLE_SIZE == 2

Pow2(n) == 2 ^ n
U64Max == Pow2(Width) - 1
I64Max == Pow2(Width - 1) - 1
I64Min == 0 - Pow2(Width - 1)

MaxLen == 2 * SAMPLE_SIZE + MaxMiddle
Bytes == {0, 1}
Contents == UNION {[1..n -> Bytes] : n \in 0..MaxLen}

\* Option<T>
None == <<>>
Some(x) == <<x>>
IsSome(o) == Len(o) = 1
IsNone(o) == Len(o) = 0
Unwrap(o) == o[1]

Min(a, b) == IF a <= b THEN a ELSE b

----------------------------------------------------------------------------
(* The file system seen by the crate *)

FileIds == {"A", "B"}
Cids == {"c1", "c2"}

\* "a" and "a2" are two names of the same regular file, "b" is another regular
\* file, "dir" is a directory and "missing" does not exist.
Paths == {"a", "a2", "b", "dir", "missing"}
Kind(p) == IF p \in {"a", "a2", "b"} THEN "file" ELSE IF p = "dir" THEN "dir" ELSE "none"
Target(p) == IF p = "b" THEN "B" ELSE "A"
Content(p) == IF Kind(p) = "file" THEN files[Target(p)] ELSE <<>>

\* io::Error values
NotAFileError == [kind |-> "Other", os |-> FALSE, msg |-> "Path does not reference a file"]
OsError(kind) == [kind |-> kind, os |-> TRUE, msg |-> ""]
UnexpectedEof == [kind |-> "UnexpectedEof", os |-> FALSE, msg |-> "failed to fill whole buffer"]
SlicePanic == [kind |-> "panic", os |-> FALSE, msg |-> "slice index out of range"]
StatErrors == {OsError("NotFound"), OsError("PermissionDenied"), OsError("Other")}

----------------------------------------------------------------------------
(* Length arithmetic *)

\* `len as i64`: two's complement reinterpretation
AsI64(x) == IF x > I64Max THEN x - Pow2(Width) ELSE x
\* the value an i64 operation leaves when it wraps
WrapI64(x) == ((x + Pow2(Width - 1)) % Pow2(Width)) - Pow2(Width - 1)

\* get_head_length with the cast it performs (None when no cast is executed)
head_length_eval(len) ==
    IF len > I64Max
    THEN [cast |-> None, result |-> SAMPLE_SIZE]
    ELSE [cast |-> Some(AsI64(len)), result |-> Min(AsI64(len), SAMPLE_SIZE)]

get_head_length(len) == head_length_eval(len).result

\* get_tail_length with `<` for `<=` in the match guard
tail_length_eval_lt(len) ==
    IF len > I64Max
    THEN [cast |-> None, overflow |-> FALSE, result |-> Some(SAMPLE_SIZE)]
    ELSE LET raw == AsI64(len) - SAMPLE_SIZE
             d == WrapI64(raw)
         IN [cast |-> Some(AsI64(len)),
             overflow |-> raw \notin I64Min..I64Max,
             result |-> IF d < 0 THEN None ELSE Some(Min(d, SAMPLE_SIZE))]

\* get_tail_length without the early return for lengths above i64::MAX
tail_length_eval_noguard(len) ==
    LET raw == AsI64(len) - SAMPLE_SIZE
        d == WrapI64(raw)
    IN [cast |-> Some(AsI64(len)),
        overflow |-> raw \notin I64Min..I64Max,
        result |-> IF d <= 0 THEN None ELSE Some(Min(d, SAMPLE_SIZE))]

\* get_tail_length with the cast and the subtraction it performs
tail_length_eval(len) ==
    IF len > I64Max
    THEN [cast |-> None, overflow |-> FALSE, result |-> Some(SAMPLE_SIZE)]
    ELSE LET raw == AsI64(len) - SAMPLE_SIZE
             d == WrapI64(raw)
         IN [cast |-> Some(AsI64(len)),
             overflow |-> raw \notin I64Min..I64Max,
             result |-> IF d <= 0 THEN None ELSE Some(Min(d, SAMPLE_SIZE))]

get_tail_length(len) == tail_length_eval(len).result

----------------------------------------------------------------------------
(* Digest *)

RECURSIVE absorb(_, _)
absorb(h, s) == IF s = <<>> THEN h ELSE absorb((h * 31 + Head(s) + 1) % 257, Tail(s))

\* fixed-width digest of a byte slice
hash(s) == absorb(Len(s) + 7, s)

----------------------------------------------------------------------------
(* Equality and hashing of the value types *)

\* #[derive(PartialEq)] on Metadata instead of the hand-written impl
MetadataEq_derived(m1, m2) == m1.path = m2.path /\ m1.length = m2.length

MetadataEq(m1, m2) == m1.length = m2.length

\* #[derive(Hash)] on Metadata instead of the hand-written impl
MetadataHash_derived(m) == <<m.path, m.length>>

\* the values fed to the Hasher
MetadataHash(m) == <<m.length>>

\* an equality that forgets the tail
ImprintEq_noTail(i1, i2) == MetadataEq(i1.meta, i2.meta) /\ i1.head = i2.head

\* #[derive(PartialEq)] on Imprint: field by field, meta through Metadata::eq
ImprintEq(i1, i2) ==
    /\ MetadataEq(i1.meta, i2.meta)
    /\ i1.head = i2.head
    /\ i1.tail = i2.tail

\* #[derive(Hash)] on Imprint: the fields in order
ImprintHash(i) == <<MetadataHash(i.meta), i.head, i.tail>>

----------------------------------------------------------------------------
(* One construction: Metadata::from_path followed by try_into *)

\* the locals of one construction before it starts
Fresh ==
    [pc |-> "Start", path |-> "", meta |-> None, handle |-> "none", pos |-> 0,
     buffer |-> <<>>, head |-> None, tail |-> None, headWin |-> None,
     tailWin |-> None, err |-> None, imprint |-> None]

\* `?` / early return: the locals are dropped, the reader is closed
Fail(r, e) ==
    [r EXCEPT !.pc = "Failed", !.err = Some(e), !.buffer = <<>>,
              !.head = None, !.tail = None,
              !.handle = IF r.handle = "open" THEN "closed" ELSE r.handle]

\* from_path without the is_file test
from_path_nocheck(r, p) ==
    IF Kind(p) = "none"
    THEN Fail([r EXCEPT !.path = p], OsError("NotFound"))
    ELSE [r EXCEPT !.pc = "Probed", !.path = p,
                   !.meta = Some([path |-> p, length |-> Len(Content(p))])]

\* Metadata::from_path
from_path(r, p) ==
    IF Kind(p) = "none"
    THEN Fail([r EXCEPT !.path = p], OsError("NotFound"))
    ELSE IF Kind(p) # "file"
    THEN Fail([r EXCEPT !.path = p], NotAFileError)
    ELSE [r EXCEPT !.pc = "Probed", !.path = p,
                   !.meta = Some([path |-> p, length |-> Len(Content(p))])]

\* File::open and the allocation of the zeroed buffer
open_reader(r, ok) ==
    IF ok
    THEN [r EXCEPT !.pc = "Opened", !.handle = "open", !.pos = 0,
                   !.buffer = [i \in 1..SAMPLE_SIZE |-> 0]]
    ELSE Fail(r, OsError("NotFound"))

\* Read::read_exact of n bytes at cursor pos of a file holding `content`
read_exact(content, pos, n) ==
    IF n = 0 \/ pos + n <= Len(content)
    THEN [ok |-> TRUE, data |-> SubSeq(content, pos + 1, pos + n)]
    ELSE [ok |-> FALSE, data |-> <<>>]

\* the buffer after its first Len(data) bytes were overwritten
Fill(buffer, data) == data \o SubSeq(buffer, Len(data) + 1, Len(buffer))

\* &mut buffer[..n as usize] is in range
SliceOk(n) == n \in 0..SAMPLE_SIZE

\* hash_from_start on buffer[..get_head_length(length)]
hash_from_start(r) ==
    LET n == get_head_length(Unwrap(r.meta).length)
        res == read_exact(Content(r.path), r.pos, n)
        buf == Fill(r.buffer, res.data)
    IN IF ~SliceOk(n) THEN Fail(r, SlicePanic)
       ELSE IF ~res.ok
       THEN Fail(r, UnexpectedEof)
       ELSE [r EXCEPT !.pc = "HeadSampled", !.pos = r.pos + n, !.buffer = buf,
                      !.head = Some(hash(SubSeq(buf, 1, n))),
                      !.headWin = Some([off |-> r.pos, len |-> n])]

\* a seek measured from the start of the file
SeekFromStart(size, offset) == offset

\* reader.seek(SeekFrom::End(-offset)) on a file of `size` bytes
SeekFromEnd(size, offset) == size - offset

\* get_tail_length(length), then the seek of hash_from_end
tail_seek(r) ==
    LET t == get_tail_length(Unwrap(r.meta).length)
        target == SeekFromEnd(Len(Content(r.path)), Unwrap(t))
    IN IF IsNone(t) THEN [r EXCEPT !.pc = "NoTail"]
       ELSE IF ~SliceOk(Unwrap(t)) THEN Fail(r, SlicePanic)
       ELSE IF target < 0 THEN Fail(r, OsError("InvalidInput"))
       ELSE [r EXCEPT !.pc = "TailSeeked", !.pos = target]

\* a tail read whose failure is dropped instead of propagated
tail_read_swallow(r) ==
    LET n == Unwrap(get_tail_length(Unwrap(r.meta).length))
        res == read_exact(Content(r.path), r.pos, n)
        buf == Fill(r.buffer, res.data)
    IN IF ~res.ok
       THEN [r EXCEPT !.pc = "NoTail"]
       ELSE [r EXCEPT !.pc = "TailSampled", !.pos = r.pos + n, !.buffer = buf,
                      !.tail = Some(hash(SubSeq(buf, 1, n))),
                      !.tailWin = Some([off |-> r.pos, len |-> n])]

\* the read_exact and hash of hash_from_end on buffer[..len]
tail_read(r) ==
    LET n == Unwrap(get_tail_length(Unwrap(r.meta).length))
        res == read_exact(Content(r.path), r.pos, n)
        buf == Fill(r.buffer, res.data)
    IN IF ~res.ok
       THEN Fail(r, UnexpectedEof)
       ELSE [r EXCEPT !.pc = "TailSampled", !.pos = r.pos + n, !.buffer = buf,
                      !.tail = Some(hash(SubSeq(buf, 1, n))),
                      !.tailWin = Some([off |-> r.pos, len |-> n])]

\* Ok(Imprint { meta, head, tail }); the reader and the buffer are dropped
finish(r) ==
    [r EXCEPT !.pc = "Finalized", !.handle = "closed", !.buffer = <<>>,
              !.imprint = Some([meta |-> Unwrap(r.meta), head |-> Unwrap(r.head),
                                tail |-> r.tail])]

\* one step of a construction that has been probed
step(r, ok) ==
    CASE r.pc = "Probed" -> open_reader(r, ok)
      [] r.pc = "Opened" -> hash_from_start(r)
      [] r.pc = "HeadSampled" -> tail_seek(r)
      [] r.pc = "TailSeeked" -> tail_read(r)
      [] r.pc \in {"TailSampled", "NoTail"} -> finish(r)
      [] OTHER -> r

\* try_into run to its end on files nobody modifies meanwhile
RECURSIVE run(_)
run(r) == IF r.pc \in {"Start", "Finalized", "Failed"} THEN r ELSE run(step(r, TRUE))

\* Metadata::from_path(p)?.try_into()
construct(p) == run(from_path(Fresh, p))

----------------------------------------------------------------------------
(* Specification Spec: one construction, step by step, while another      *)
(* process may resize the file between any two of its system calls.       *)

SpecPaths == {"a", "dir", "missing"}
\* the construction has been probed and still has a read of the file to do
ReadPending(r) ==
    \/ r.pc \in {"Probed", "Opened"}
    \/ r.pc \in {"HeadSampled", "TailSeeked"} /\ IsSome(get_tail_length(Unwrap(r.meta).length))
LensIdle == [len |-> 0, head |-> None, tail |-> None]

Init ==
    /\ files \in {f \in [FileIds -> Contents] : f["B"] = <<>>}
    /\ cons = [c \in Cids |-> Fresh]
    /\ writes = 0
    /\ resized = [c \in Cids |-> FALSE]
    /\ lens = LensIdle

Probe(c) ==
    /\ cons[c].pc = "Start"
    /\ \E p \in SpecPaths : cons' = [cons EXCEPT ![c] = from_path(cons[c], p)]
    /\ UNCHANGED <<files, writes, resized, lens>>

Open(c) ==
    /\ cons[c].pc = "Probed"
    /\ \E ok \in BOOLEAN : cons' = [cons EXCEPT ![c] = open_reader(cons[c], ok)]
    /\ UNCHANGED <<files, writes, resized, lens>>

ReadHead(c) ==
    /\ cons[c].pc = "Opened"
    /\ cons' = [cons EXCEPT ![c] = hash_from_start(cons[c])]
    /\ UNCHANGED <<files, writes, resized, lens>>

SeekTail(c) ==
    /\ cons[c].pc = "HeadSampled"
    /\ cons' = [cons EXCEPT ![c] = tail_seek(cons[c])]
    /\ UNCHANGED <<files, writes, resized, lens>>

ReadTail(c) ==
    /\ cons[c].pc = "TailSeeked"
    /\ cons' = [cons EXCEPT ![c] = tail_read(cons[c])]
    /\ UNCHANGED <<files, writes, resized, lens>>

Finalize(c) ==
    /\ cons[c].pc \in {"TailSampled", "NoTail"}
    /\ cons' = [cons EXCEPT ![c] = finish(cons[c])]
    /\ UNCHANGED <<files, writes, resized, lens>>

\* another process appends to, or truncates, the file between the stat of a
\* construction and one of its reads
Resize(c) ==
    /\ ReadPending(cons[c])
    /\ writes < MaxWrites
    /\ LET f == Target(cons[c].path)
           old == files[f]
       IN \E new \in {Append(old, b) : b \in {x \in Bytes : Len(old) < MaxLen}}
                       \cup {SubSeq(old, 1, n) : n \in 0..(Len(old) - 1)} :
              files' = [files EXCEPT ![f] = new]
    /\ writes' = writes + 1
    /\ resized' = [resized EXCEPT ![c] = TRUE]
    /\ UNCHANGED <<cons, lens>>

Next ==
    \/ Probe("c1")
    \/ Open("c1")
    \/ ReadHead("c1")
    \/ SeekTail("c1")
    \/ ReadTail("c1")
    \/ Finalize("c1")
    \/ Resize("c1")

Spec == Init /\ [][Next]_vars

----------------------------------------------------------------------------
(* Specification SpecPair: two constructions over unmodified files.       *)

PairPaths == {"a", "a2", "b"}

InitPair ==
    /\ files \in [FileIds -> Contents]
    /\ cons = [c \in Cids |-> Fresh]
    /\ writes = 0
    /\ resized = [c \in Cids |-> FALSE]
    /\ lens = LensIdle

Construct(c) ==
    /\ cons[c].pc = "Start"
    /\ \E p \in PairPaths : cons' = [cons EXCEPT ![c] = construct(p)]
    /\ UNCHANGED <<files, writes, resized, lens>>

NextPair == \E c \in Cids : Construct(c)

SpecPair == InitPair /\ [][NextPair]_vars

----------------------------------------------------------------------------
(* Specification SpecLen: the length arithmetic over every u64 length.    *)

InitLen ==
    /\ files = [f \in FileIds |-> <<>>]
    /\ cons = [c \in Cids |-> Fresh]
    /\ writes = 0
    /\ resized = [c \in Cids |-> FALSE]
    /\ \E n \in 0..U64Max : lens = [len |-> n, head |-> None, tail |-> None]

HeadLength ==
    /\ IsNone(lens.head)
    /\ lens' = [lens EXCEPT !.head = Some(head_length_eval(lens.len))]
    /\ UNCHANGED <<files, cons, writes, resized>>

TailLength ==
    /\ IsNone(lens.tail)
    /\ lens' = [lens EXCEPT !.tail = Some(tail_length_eval(lens.len))]
    /\ UNCHANGED <<files, cons, writes, resized>>

NextLen == HeadLength \/ TailLength

SpecLen == InitLen /\ [][NextLen]_vars

----------------------------------------------------------------------------
(* Claims checked under Spec *)

ProbedLen(r) == Unwrap(r.meta).length

\* C1: for every probed length L the head read covers exactly min(L, SAMPLE_SIZE)
\* bytes from offset 0, a tail is read if and only if L > SAMPLE_SIZE, and the
\* tail read covers min(L - SAMPLE_SIZE, SAMPLE_SIZE) bytes.
C1_SampleLengths ==
    \A c \in Cids :
        LET r == cons[c] IN
        IsSome(r.meta) =>
            /\ IsSome(r.headWin) =>
                   Unwrap(r.headWin) = [off |-> 0, len |-> Min(ProbedLen(r), SAMPLE_SIZE)]
            /\ (r.pc \in {"TailSeeked", "TailSampled"} \/ IsSome(r.tailWin)) =>
                   ProbedLen(r) > SAMPLE_SIZE
            /\ IsSome(r.tailWin) =>
                   Unwrap(r.tailWin).len = Min(ProbedLen(r) - SAMPLE_SIZE, SAMPLE_SIZE)
            /\ r.pc = "NoTail" => ProbedLen(r) <= SAMPLE_SIZE
            /\ r.pc = "Finalized" =>
                   /\ IsSome(r.headWin)
                   /\ IsSome(r.tailWin) <=> ProbedLen(r) > SAMPLE_SIZE
                   /\ IsSome(Unwrap(r.imprint).tail) <=> ProbedLen(r) > SAMPLE_SIZE

\* a finished construction of a file of SAMPLE_SIZE + 1 bytes, tail of one byte
C1_Witness ==
    /\ cons["c1"].pc = "Finalized"
    /\ ProbedLen(cons["c1"]) = SAMPLE_SIZE + 1
    /\ Unwrap(cons["c1"].tailWin).len = 1
    /\ IsSome(Unwrap(cons["c1"].imprint).tail)

\* C3: if the file's length changes between the stat and a read, the
\* construction fails; a returned Imprint was read from the windows computed
\* from the probed length.
C3_ResizeFails ==
    \A c \in Cids :
        LET r == cons[c] IN
        r.pc = "Finalized" =>
            /\ ~resized[c]
            /\ Unwrap(r.headWin) = [off |-> 0, len |-> Min(ProbedLen(r), SAMPLE_SIZE)]
            /\ IsSome(r.tailWin) =>
                   Unwrap(r.tailWin).off = ProbedLen(r) - Unwrap(r.tailWin).len

\* C7: a path that is not a regular file fails at the probe with the
\* "not a file" error, which no stat failure returns; no Metadata or Imprint
\* exists and the file was never opened or read.
C7_NotAFile ==
    \A c \in Cids :
        LET r == cons[c] IN
        /\ (r.pc # "Start" /\ Kind(r.path) = "dir") =>
               /\ r.pc = "Failed"
               /\ r.err = Some(NotAFileError)
               /\ NotAFileError \notin StatErrors
               /\ IsNone(r.meta) /\ IsNone(r.imprint)
               /\ r.handle = "none"
               /\ IsNone(r.headWin) /\ IsNone(r.tailWin)
        /\ (r.pc # "Start" /\ Kind(r.path) = "none") =>
               /\ r.pc = "Failed"
               /\ Unwrap(r.err) \in StatErrors
               /\ Unwrap(r.err) # NotAFileError

\* the construction was given the directory and has returned
C7_Witness == cons["c1"].pc = "Failed" /\ cons["c1"].path = "dir"

\* C8: a tail read covers [L - tail_len, L) for the probed length L and does
\* not overlap the head window; the windows are adjacent at L = 2 * SAMPLE_SIZE
\* and leave L - 2 * SAMPLE_SIZE unsampled bytes above that.
C8_TailWindow ==
    \A c \in Cids :
        LET r == cons[c] IN
        IsSome(r.tailWin) =>
            LET w == Unwrap(r.tailWin)
                h == Unwrap(r.headWin)
                L == ProbedLen(r)
            IN /\ w.off = L - w.len
               /\ w.off + w.len = L
               /\ w.off >= h.off + h.len
               /\ L = 2 * SAMPLE_SIZE => w.off = h.off + h.len
               /\ L > 2 * SAMPLE_SIZE => w.off - (h.off + h.len) = L - 2 * SAMPLE_SIZE

Rank(pc) ==
    CASE pc = "Start" -> 0
      [] pc = "Probed" -> 1
      [] pc = "Opened" -> 2
      [] pc = "HeadSampled" -> 3
      [] pc = "TailSeeked" -> 4
      [] pc \in {"TailSampled", "NoTail"} -> 5
      [] pc = "Finalized" -> 6
      [] pc = "Failed" -> 7

Successors(pc) ==
    CASE pc = "Start" -> {"Probed", "Failed"}
      [] pc = "Probed" -> {"Opened", "Failed"}
      [] pc = "Opened" -> {"HeadSampled", "Failed"}
      [] pc = "HeadSampled" -> {"TailSeeked", "NoTail", "Failed"}
      [] pc = "TailSeeked" -> {"TailSampled", "Failed"}
      [] pc \in {"TailSampled", "NoTail"} -> {"Finalized"}
      [] OTHER -> {}

C9_Step ==
    \A c \in Cids :
        cons'[c] # cons[c] =>
            /\ cons'[c].pc \in Successors(cons[c].pc)
            /\ Rank(cons'[c].pc) > Rank(cons[c].pc)

C9_State ==
    \A c \in Cids :
        LET r == cons[c] IN
        /\ r.pc = "Failed" => IsSome(r.err) /\ IsNone(r.imprint)
        /\ IsSome(r.imprint) => r.pc = "Finalized" /\ IsNone(r.err)
        /\ r.pc = "Finalized" => IsSome(r.imprint)
        /\ (r.pc \in {"HeadSampled", "TailSeeked", "TailSampled", "NoTail"}) =>
               IsSome(r.head) /\ IsSome(r.headWin)
        /\ IsSome(r.tailWin) => IsSome(r.headWin)
        /\ r.pc = "NoTail" => IsNone(get_tail_length(ProbedLen(r)))
        /\ r.pc = "TailSampled" => IsSome(r.tail)

\* C9: a construction only moves forward through Start, Probed (stat done,
\* then reader opened), HeadSampled, TailSampled or NoTail, Finalized; the head
\* digest exists before the buffer is reused for the tail; a failing step ends
\* the construction with its error and without an Imprint.
C9_Linear == [](C9_State) /\ [][C9_Step]_vars

\* the tail read failed after the head had been sampled
C9_Witness ==
    /\ cons["c1"].pc = "Failed"
    /\ IsSome(cons["c1"].headWin)
    /\ cons["c1"].err = Some(UnexpectedEof)

----------------------------------------------------------------------------
(* Claims checked under SpecPair *)

BothFinalized == cons["c1"].pc = "Finalized" /\ cons["c2"].pc = "Finalized"
Imprint1 == Unwrap(cons["c1"].imprint)
Imprint2 == Unwrap(cons["c2"].imprint)
File1 == files[Target(cons["c1"].path)]
File2 == files[Target(cons["c2"].path)]

C4_LengthOnly ==
    (IsSome(cons["c1"].meta) /\ IsSome(cons["c2"].meta)) =>
        LET m1 == Unwrap(cons["c1"].meta)
            m2 == Unwrap(cons["c2"].meta)
        IN /\ MetadataEq(m1, m2) <=> Len(File1) = Len(File2)
           /\ MetadataHash(m1) = <<Len(File1)>>
           /\ MetadataHash(m2) = <<Len(File2)>>
           /\ MetadataEq(m1, m2) => MetadataHash(m1) = MetadataHash(m2)

\* two files of one length and different contents, under different paths
C4_Witness ==
    /\ IsSome(cons["c1"].meta) /\ IsSome(cons["c2"].meta)
    /\ cons["c1"].path # cons["c2"].path
    /\ File1 # File2
    /\ Len(File1) = Len(File2)
    /\ MetadataEq(Unwrap(cons["c1"].meta), Unwrap(cons["c2"].meta))

SameEnds(f1, f2) ==
    /\ Len(f1) = Len(f2)
    /\ Len(f1) > 2 * SAMPLE_SIZE
    /\ SubSeq(f1, 1, SAMPLE_SIZE) = SubSeq(f2, 1, SAMPLE_SIZE)
    /\ SubSeq(f1, Len(f1) - SAMPLE_SIZE + 1, Len(f1))
           = SubSeq(f2, Len(f2) - SAMPLE_SIZE + 1, Len(f2))

\* C5: two unmodified files of one length L > 2 * SAMPLE_SIZE with the same
\* first and the same last SAMPLE_SIZE bytes have equal Imprints, whatever
\* their middle bytes.
C5_MiddleIgnored ==
    (BothFinalized /\ SameEnds(File1, File2)) =>
        /\ ImprintEq(Imprint1, Imprint2)
        /\ Imprint1.head = Imprint2.head
        /\ Imprint1.tail = Imprint2.tail

\* two such files whose middles differ
C5_Witness ==
    /\ BothFinalized
    /\ SameEnds(File1, File2)
    /\ File1 # File2
    /\ ImprintEq(Imprint1, Imprint2)

\* C6: two constructions of the same unmodified file give Imprints that are
\* equal and feed the same values to a hasher.
C6_Deterministic ==
    (BothFinalized /\ Target(cons["c1"].path) = Target(cons["c2"].path)) =>
        /\ ImprintEq(Imprint1, Imprint2)
        /\ ImprintHash(Imprint1) = ImprintHash(Imprint2)

\* the same file, with a tail, fingerprinted under its two names
C6_Witness ==
    /\ BothFinalized
    /\ cons["c1"].path = "a" /\ cons["c2"].path = "a2"
    /\ Len(File1) > SAMPLE_SIZE
    /\ ImprintEq(Imprint1, Imprint2)

----------------------------------------------------------------------------
(* Claims checked under SpecLen *)

\* C10: for every u64 length get_head_length is in [0, SAMPLE_SIZE] and
\* get_tail_length is None or in [1, SAMPLE_SIZE]; the cast to i64 is never
\* negative and the subtraction never overflows; above i64::MAX both results
\* are SAMPLE_SIZE, which is min(L, SAMPLE_SIZE) and min(L - SAMPLE_SIZE,
\* SAMPLE_SIZE).
C10_LengthsInRange ==
    /\ IsSome(lens.head) =>
           LET h == Unwrap(lens.head) IN
           /\ h.result \in 0..SAMPLE_SIZE
           /\ SliceOk(h.result)
           /\ IsSome(h.cast) => Unwrap(h.cast) >= 0
           /\ lens.len > I64Max =>
                  h.result = SAMPLE_SIZE /\ h.result = Min(lens.len, SAMPLE_SIZE)
    /\ IsSome(lens.tail) =>
           LET t == Unwrap(lens.tail) IN
           /\ IsNone(t.result) \/ Unwrap(t.result) \in 1..SAMPLE_SIZE
           /\ IsSome(t.result) => SliceOk(Unwrap(t.result))
           /\ ~t.overflow
           /\ IsSome(t.cast) => Unwrap(t.cast) >= 0
           /\ lens.len > I64Max =>
                  /\ t.result = Some(SAMPLE_SIZE)
                  /\ Unwrap(t.result) = Min(lens.len - SAMPLE_SIZE, SAMPLE_SIZE)

\* both lengths computed for the largest u64
C10_Witness ==
    /\ lens.len = U64Max
    /\ IsSome(lens.head) /\ Unwrap(lens.head).result = SAMPLE_SIZE
    /\ IsSome(lens.tail) /\ Unwrap(lens.tail).result = Some(SAMPLE_SIZE)

====
